---- MODULE Spec2Model ----
(***************************************************************************)
(* State-machine model of protes_general (src/protes/protes_general.py):   *)
(* the search loop (sample, evaluate, track the best, check the budget,    *)
(* select the top samples, update the model), the best-value bookkeeping   *)
(* of _check, the seeded key stream, and the return path.                  *)
(*                                                                         *)
(* Floating-point content of the tensor-train cores is abstracted to a     *)
(* digest (a natural number): _generate_initial, _sample and optimize are  *)
(* deterministic functions of their arguments in the source, and they are  *)
(* deterministic functions of the same arguments here.  Random keys are    *)
(* modelled as split paths: PRNGKey(seed) is <<seed>> and the i-th key of  *)
(* a split is the parent path extended by i.                               *)
(*                                                                         *)
(* Batch positions are 1-based in the model (0-based in the source).       *)
(* Two runs of the same call (Runs) exist so that reproducibility can be   *)
(* stated; only run 1 is active under Spec and FairSpec.                   *)
(***************************************************************************)
EXTENDS Integers, Sequences, FiniteSets, TLC

\* ---------------------------------------------------------------- bounds
MaxK == 2          \* batch sizes k range over 1..MaxK
MaxVal == 1        \* objective values range over 0..MaxVal
MaxBudget == 3     \* budgets m range over 1..MaxBudget (and None)
MaxCalls == 2      \* cap on objective calls of a run without a budget
PMod == 3          \* size of the digest space of the TT model
HashMod == 5       \* size of the digest space of a random key

\* ------------------------------------------------------------- constants
None == -1                \* Python None where a number is expected
NoIndex == <<>>           \* Python None where a multi-index is expected
NoneY == <<-1>>           \* the objective's reply None (stop sentinel)
n == <<2, 2>>             \* dimension sizes of the search space
d == Len(n)
Runs == {1, 2}
Values == 0..MaxVal
Seeds == {0, 1}

VARIABLES
    args,      \* the call's arguments (identical for both runs)
    f,         \* the objective: its kind, and its value table when deterministic
    pc,        \* position of each run
    info,      \* the info dict of each run
    rng,       \* the key stream
    key,       \* the key split off for the current iteration
    P,         \* the TT model (digest)
    state,     \* the optimizer state: number of steps applied (adam's count)
    I,         \* the sampled batch of the current iteration
    y,         \* the objective's reply of the current iteration
    is_new,    \* the local is_new: "unbound", "true" or "false"
    ind,       \* the positions selected for the gradient step
    result,    \* the returned pair
    calls,     \* history: number of objective calls
    conform,   \* history: every reply so far was None or k values
    first_at   \* history: per value, the multi-index of its earliest occurrence

vars == <<args, f, pc, info, rng, key, P, state, I, y, is_new, ind, result,
          calls, conform, first_at>>

\* ------------------------------------------------------------- helpers
Min2(a, b) == IF a <= b THEN a ELSE b

RECURSIVE SumSeq(_)
SumSeq(s) == IF s = <<>> THEN 0 ELSE s[1] + SumSeq(Tail(s))

RECURSIVE SumRows(_)
SumRows(rows) == IF rows = <<>> THEN 0 ELSE SumSeq(rows[1]) + SumRows(Tail(rows))

\* digest of the first j entries of a key
RECURSIVE FoldTo(_, _)
FoldTo(k, j) == IF j = 0 THEN 0 ELSE (FoldTo(k, j - 1) * 3 + k[j] + 1) % HashMod

Fold(k) == FoldTo(k, Len(k))

Index == {<<a, b>> : a \in 0..(n[1] - 1), b \in 0..(n[2] - 1)}

\* ------------------------------------------------------- random keys
PRNGKey(seed) == <<seed>>
RECURSIVE split(_, _)
split(k, num) == IF num = 0 THEN <<>> ELSE Append(split(k, num - 1), Append(k, num - 1))

\* -------------------------------------------------- model and sampler
RECURSIVE FoldAll(_)
FoldAll(keys) == IF keys = <<>> THEN 0 ELSE Fold(keys[1]) + FoldAll(Tail(keys))

_generate_initial(nn, k) == FoldAll(split(k, Len(nn))) % PMod

SuppliedP == 0

choice(k, nj, G) == (Fold(k) + G) % nj

Weights(Y, prefix) == Y + SumSeq(prefix)

\* the first j components of the sample: component j is drawn with keys[j]
\* from the weights given by the model and the components before it
RECURSIVE SampleTo(_, _, _)
SampleTo(Y, keys, j) ==
    IF j = 0 THEN <<>>
    ELSE LET prefix == SampleTo(Y, keys, j - 1)
         IN  Append(prefix, choice(keys[j], n[j], Weights(Y, prefix)))

_sample(Y, k) == SampleTo(Y, split(k, d), d)

\* jax.vmap(_sample, (None, 0))
RECURSIVE sample(_, _)
sample(Y, keys) ==
    IF keys = <<>> THEN <<>>
    ELSE <<_sample(Y, keys[1])>> \o sample(Y, Tail(keys))

\* I[p, :] for a position p: out-of-range positions are clamped by jax
Row(II, p) == II[Min2(p, Len(II))]

RECURSIVE Rows(_, _)
Rows(II, pos) == IF pos = <<>> THEN <<>> ELSE <<Row(II, pos[1])>> \o Rows(II, Tail(pos))

optimize(st, P_cur, I_cur) ==
    [state |-> st + 1, P |-> (P_cur * 2 + SumRows(I_cur) + 1) % PMod]

RECURSIVE Repeat(_, _, _, _)
Repeat(cnt, st, P_cur, I_cur) ==
    IF cnt = 0 THEN [state |-> st, P |-> P_cur]
    ELSE LET o == optimize(st, P_cur, I_cur)
         IN  Repeat(cnt - 1, o.state, o.P, I_cur)

\* ------------------------------------------------------------ _check
RECURSIVE ArgBestLast(_, _, _, _)
\* variant: ties move the best position forward (last occurrence wins)
ArgBestLast(yy, p, best, mx) ==
    IF p > Len(yy) THEN best
    ELSE IF (mx /\ yy[p] >= yy[best]) \/ (~mx /\ yy[p] <= yy[best])
         THEN ArgBestLast(yy, p + 1, p, mx)
         ELSE ArgBestLast(yy, p + 1, best, mx)

RECURSIVE ArgBest(_, _, _, _)
\* first position of the best value of yy, scanning from position p
ArgBest(yy, p, best, mx) ==
    IF p > Len(yy) THEN best
    ELSE IF (mx /\ yy[p] > yy[best]) \/ (~mx /\ yy[p] < yy[best])
         THEN ArgBest(yy, p + 1, p, mx)
         ELSE ArgBest(yy, p + 1, best, mx)

argmax(yy) == ArgBest(yy, 2, 1, TRUE)
argmin(yy) == ArgBest(yy, 2, 1, FALSE)

\* variant: a batch that ties the incumbent counts as an improvement
IsNewNonStrict(inf, y_opt_curr) ==
    \/ inf.y_opt = None
    \/ (inf.is_max /\ inf.y_opt <= y_opt_curr)
    \/ (~inf.is_max /\ inf.y_opt >= y_opt_curr)

IsNew(inf, y_opt_curr) ==
    \/ inf.y_opt = None
    \/ (inf.is_max /\ inf.y_opt < y_opt_curr)
    \/ (~inf.is_max /\ inf.y_opt > y_opt_curr)

_check(P_cur, II, yy, inf, with_info_i_opt_list, with_info_full) ==
    LET ind_opt == IF inf.is_max THEN argmax(yy) ELSE argmin(yy)
        i_opt_curr == Row(II, ind_opt)
        y_opt_curr == yy[ind_opt]
        new == IsNew(inf, y_opt_curr)
        inf1 == IF new THEN [inf EXCEPT !.i_opt = i_opt_curr, !.y_opt = y_opt_curr]
                ELSE inf
        inf2 == IF new \/ with_info_full
                THEN [inf1 EXCEPT
                        !.m_opt_list = Append(@, inf1.m),
                        !.y_opt_list = Append(@, inf1.y_opt),
                        !.i_opt_list = IF with_info_i_opt_list \/ with_info_full
                                       THEN Append(@, inf1.i_opt) ELSE @]
                ELSE inf1
        inf3 == IF with_info_full
                THEN [inf2 EXCEPT !.P_list = Append(@, P_cur),
                                  !.I_list = Append(@, II),
                                  !.y_list = Append(@, yy)]
                ELSE inf2
    IN  [info |-> inf3, is_new |-> new]

\* ------------------------------------------------------ top selection
RECURSIVE Insert(_, _, _)
\* insert position p into the sorted position list s, after equal values
Insert(s, p, yy) ==
    IF s = <<>> THEN <<p>>
    ELSE IF yy[p] < yy[s[1]] THEN <<p>> \o s
         ELSE <<s[1]>> \o Insert(Tail(s), p, yy)

RECURSIVE ArgsortFrom(_, _, _)
ArgsortFrom(yy, p, acc) ==
    IF p > Len(yy) THEN acc ELSE ArgsortFrom(yy, p + 1, Insert(acc, p, yy))

\* jnp.argsort(y, kind='stable')
argsort(yy) == ArgsortFrom(yy, 1, <<>>)

RECURSIVE Reverse(_)
Reverse(s) == IF s = <<>> THEN <<>> ELSE Append(Reverse(Tail(s)), s[1])

\* variant: the sorted order is not reversed when maximizing
SelectTopNoReverse(yy, is_max, k_top) ==
    LET srt == argsort(yy)
    IN  SubSeq(srt, 1, Min2(k_top, Len(srt)))

SelectTop(yy, is_max, k_top) ==
    LET srt == argsort(yy)
        dir == IF is_max THEN Reverse(srt) ELSE srt
    IN  SubSeq(dir, 1, Min2(k_top, Len(dir)))

\* variant: the count grows by one per objective call
AddEvaluationsOne(inf, yy) == [inf EXCEPT !.m = @ + 1]

\* line 54: info['m'] += y.shape[0]
AddEvaluations(inf, yy) == [inf EXCEPT !.m = @ + Len(yy)]

\* variant: the stream is not advanced
IterationKeysReuse(stream, k) ==
    LET ks == split(stream, 2)
    IN  [rng |-> stream, key |-> ks[2], keys |-> split(ks[2], k)]

\* lines 46-47: one key is split off the stream, then split into k sample keys
IterationKeys(stream, k) ==
    LET ks == split(stream, 2)
    IN  [rng |-> ks[1], key |-> ks[2], keys |-> split(ks[2], k)]

\* ----------------------------------------------------------- budget
\* variant: the budget is reached only when exceeded
BudgetReachedStrict(inf) ==
    inf.m_max # None /\ inf.m_max # 0 /\ inf.m > inf.m_max

BudgetReached(inf) ==
    inf.m_max # None /\ inf.m_max # 0 /\ inf.m >= inf.m_max

\* ------------------------------------------------------------- Init
EmptyInfo ==
    [m_max |-> None, is_max |-> FALSE, m |-> 0, i_opt |-> NoIndex, y_opt |-> None,
     m_opt_list |-> <<>>, i_opt_list |-> <<>>, y_opt_list |-> <<>>,
     P_list |-> <<>>, I_list |-> <<>>, y_list |-> <<>>]

\* the calls explored: every combination of budget, batch size, k_top, k_gd
\* and direction; the history options, a supplied model and the second seed
\* are explored on one shape of call
ArgSet ==
    {a \in [m : {None} \cup (1..MaxBudget), k : 1..MaxK, k_top : 1..(MaxK + 1),
             k_gd : {1, 2}, seed : Seeds, is_max : BOOLEAN, is_rand : BOOLEAN,
             with_info_i_opt_list : BOOLEAN, with_info_full : BOOLEAN] :
        /\ (a.with_info_i_opt_list \/ a.with_info_full \/ ~a.is_rand \/ a.seed # 0)
              => (a.k_gd = 1 /\ a.k_top = 1 /\ a.m = MaxBudget)
        /\ ~(a.with_info_i_opt_list /\ a.with_info_full)}

InitRuns ==
    /\ pc = [r \in Runs |-> "start"]
    /\ info = [r \in Runs |-> EmptyInfo]
    /\ rng = [r \in Runs |-> <<>>]
    /\ key = [r \in Runs |-> <<>>]
    /\ P = [r \in Runs |-> 0]
    /\ state = [r \in Runs |-> 0]
    /\ I = [r \in Runs |-> <<>>]
    /\ y = [r \in Runs |-> <<>>]
    /\ is_new = [r \in Runs |-> "unbound"]
    /\ ind = [r \in Runs |-> <<>>]
    /\ result = [r \in Runs |-> <<>>]
    /\ calls = [r \in Runs |-> 0]
    /\ conform = [r \in Runs |-> TRUE]
    /\ first_at = [r \in Runs |-> [v \in Values |-> NoIndex]]

\* objectives: "any" replies arbitrarily (None, or a batch of k values or off by one),
\* "values" replies k values on every call, "table" is a deterministic
\* objective that maps each multi-index through a table and replies None
\* from call number stop + 1 on
ZeroTable == [i \in Index |-> 0]
SumTable == [i \in Index |-> (i[1] + i[2]) % (MaxVal + 1)]
FirstTable == [i \in Index |-> i[1] % (MaxVal + 1)]

Init ==
    /\ args \in ArgSet
    /\ f \in [kind : {"any", "values"}, table : {ZeroTable}, stop : {MaxCalls}]
    /\ InitRuns

ArgSetDet ==
    {a \in ArgSet : a.k_gd = 1 /\ a.k_top = 1 /\ a.with_info_i_opt_list = FALSE}

InitDet ==
    /\ args \in ArgSetDet
    /\ f \in [kind : {"table"}, table : {SumTable, FirstTable}, stop : 1..MaxCalls]
    /\ InitRuns

\* the calls explored under fairness
ArgSetFair ==
    {a \in ArgSet : a.k_gd = 1 /\ a.k_top = 1 /\ a.seed = 0 /\ a.is_rand
                     /\ ~a.with_info_i_opt_list /\ ~a.with_info_full}

InitFair ==
    /\ args \in ArgSetFair
    /\ f \in [kind : {"any", "values"}, table : {ZeroTable}, stop : {MaxCalls}]
    /\ InitRuns

ActiveRuns == IF f.kind = "table" THEN Runs ELSE {1}

\* ---------------------------------------------------------- actions
\* lines 10-43: fill info, seed the stream, build the model and the optimizer
Start(r) ==
    /\ pc[r] = "start"
    /\ info' = [info EXCEPT ![r] =
                  [EmptyInfo EXCEPT !.m_max = args.m, !.is_max = args.is_max]]
    /\ LET rng0 == PRNGKey(args.seed)
       IN  IF args.is_rand
           THEN /\ rng' = [rng EXCEPT ![r] = split(rng0, 2)[1]]
                /\ P' = [P EXCEPT ![r] = _generate_initial(n, split(rng0, 2)[2])]
           ELSE /\ rng' = [rng EXCEPT ![r] = rng0]
                /\ P' = [P EXCEPT ![r] = SuppliedP]
    /\ state' = [state EXCEPT ![r] = 0]
    /\ pc' = [pc EXCEPT ![r] = "sample"]
    /\ UNCHANGED <<args, f, key, I, y, is_new, ind, result, calls, conform, first_at>>

\* lines 46-47
Sample(r) ==
    /\ pc[r] = "sample"
    /\ \E it \in {IterationKeys(rng[r], args.k)} :
           /\ rng' = [rng EXCEPT ![r] = it.rng]
           /\ key' = [key EXCEPT ![r] = it.key]
           /\ I' = [I EXCEPT ![r] = sample(P[r], it.keys)]
    /\ pc' = [pc EXCEPT ![r] = "eval"]
    /\ UNCHANGED <<args, f, info, P, state, y, is_new, ind, result, calls,
                   conform, first_at>>

\* the replies the objective may give to the batch of run r
Replies(r) ==
    LET capped == IF f.kind = "table" THEN calls[r] >= f.stop
                  ELSE args.m = None /\ calls[r] >= MaxCalls
        \* sizes of a reply: k, one less, and (for k = 1) one more
        lens == IF args.k = 1 THEN 0..2 ELSE {args.k - 1, args.k}
    IN  CASE f.kind = "table" ->
               IF capped THEN {NoneY}
               ELSE {[s \in 1..Len(I[r]) |-> f.table[I[r][s]]]}
          [] f.kind = "values" ->
               IF capped THEN {} ELSE [1..args.k -> Values]
          [] OTHER ->
               IF capped THEN {NoneY}
               ELSE {NoneY} \cup UNION {[1..l -> Values] : l \in lens}

FirstPos(yy, v) == CHOOSE p \in 1..Len(yy) : yy[p] = v /\ \A q \in 1..(p - 1) : yy[q] # v

\* lines 49-51
Evaluate(r) ==
    /\ pc[r] = "eval"
    /\ \E reply \in Replies(r) :
         /\ y' = [y EXCEPT ![r] = reply]
         /\ pc' = [pc EXCEPT ![r] = IF reply = NoneY THEN "exit" ELSE "check"]
         /\ conform' = [conform EXCEPT ![r] =
                          @ /\ (reply = NoneY \/ Len(reply) = args.k)]
         /\ first_at' = [first_at EXCEPT ![r] =
                [v \in Values |->
                   IF @[v] # NoIndex \/ reply = NoneY
                      \/ ~(\E p \in 1..Len(reply) : reply[p] = v)
                   THEN @[v]
                   ELSE Row(I[r], FirstPos(reply, v))]]
    /\ calls' = [calls EXCEPT ![r] = @ + 1]
    /\ UNCHANGED <<args, f, info, rng, key, P, state, I, is_new, ind, result>>

\* lines 53-56; argmin/argmax of an empty batch raises
Check(r) ==
    /\ pc[r] = "check"
    /\ \E inf \in {AddEvaluations(info[r], y[r])} :
           IF Len(y[r]) = 0
           THEN /\ info' = [info EXCEPT ![r] = inf]
                /\ pc' = [pc EXCEPT ![r] = "fault"]
                /\ UNCHANGED is_new
           ELSE \E c \in {_check(P[r], I[r], y[r], inf,
                                  args.with_info_i_opt_list, args.with_info_full)} :
                    /\ info' = [info EXCEPT ![r] = c.info]
                    /\ is_new' = [is_new EXCEPT ![r] =
                                    IF c.is_new THEN "true" ELSE "false"]
                    /\ pc' = [pc EXCEPT ![r] = "budget"]
    /\ UNCHANGED <<args, f, rng, key, P, state, I, y, ind, result, calls,
                   conform, first_at>>

\* variant: the budget test sits after the gradient step
BudgetAfterUpdate(r) ==
    /\ pc[r] = "budget"
    /\ IF BudgetReached(info[r])
       THEN LET sel == SelectTop(y[r], args.is_max, args.k_top)
                o == Repeat(args.k_gd, state[r], P[r], Rows(I[r], sel))
            IN  /\ ind' = [ind EXCEPT ![r] = sel]
                /\ state' = [state EXCEPT ![r] = o.state]
                /\ P' = [P EXCEPT ![r] = o.P]
                /\ pc' = [pc EXCEPT ![r] = "exit"]
       ELSE /\ pc' = [pc EXCEPT ![r] = "select"]
            /\ UNCHANGED <<ind, state, P>>
    /\ UNCHANGED <<args, f, info, rng, key, I, y, is_new, result, calls,
                   conform, first_at>>

\* lines 58-59
Budget(r) ==
    /\ pc[r] = "budget"
    /\ pc' = [pc EXCEPT ![r] = IF BudgetReached(info[r]) THEN "exit" ELSE "select"]
    /\ UNCHANGED <<args, f, info, rng, key, P, state, I, y, is_new, ind, result,
                   calls, conform, first_at>>

\* lines 61-62
Select(r) ==
    /\ pc[r] = "select"
    /\ ind' = [ind EXCEPT ![r] = SelectTop(y[r], args.is_max, args.k_top)]
    /\ pc' = [pc EXCEPT ![r] = "update"]
    /\ UNCHANGED <<args, f, info, rng, key, P, state, I, y, is_new, result,
                   calls, conform, first_at>>

\* lines 64-65
Update(r) ==
    /\ pc[r] = "update"
    /\ \E o \in {Repeat(args.k_gd, state[r], P[r], Rows(I[r], ind[r]))} :
           /\ state' = [state EXCEPT ![r] = o.state]
           /\ P' = [P EXCEPT ![r] = o.P]
    /\ pc' = [pc EXCEPT ![r] = "log"]
    /\ UNCHANGED <<args, f, info, rng, key, I, y, is_new, ind, result, calls,
                   conform, first_at>>

\* lines 67-68: the elapsed time and the printed line are not modelled
Log(r) ==
    /\ pc[r] = "log"
    /\ pc' = [pc EXCEPT ![r] = "sample"]
    /\ UNCHANGED <<args, f, info, rng, key, P, state, I, y, is_new, ind, result,
                   calls, conform, first_at>>

\* lines 70-73: reading the local is_new before any assignment raises
\* UnboundLocalError; otherwise the pair (i_opt, y_opt) is returned
Finish(r) ==
    /\ pc[r] = "exit"
    /\ IF is_new[r] = "unbound"
       THEN /\ pc' = [pc EXCEPT ![r] = "fault"]
            /\ UNCHANGED result
       ELSE /\ pc' = [pc EXCEPT ![r] = "done"]
            /\ result' = [result EXCEPT ![r] = <<info[r].i_opt, info[r].y_opt>>]
    /\ UNCHANGED <<args, f, info, rng, key, P, state, I, y, is_new, ind, calls,
                   conform, first_at>>

Next ==
    \E r \in ActiveRuns :
        \/ Start(r)
        \/ Sample(r)
        \/ Evaluate(r)
        \/ Check(r)
        \/ Budget(r)
        \/ Select(r)
        \/ Update(r)
        \/ Log(r)
        \/ Finish(r)

Spec == Init /\ [][Next]_vars

FairSpec == InitFair /\ [][Next]_vars /\ WF_vars(Next)

SpecDet == InitDet /\ [][Next]_vars

\* ================================================================ claims
Range(s) == {s[j] : j \in 1..Len(s)}

\* the smallest multiple of k that is >= M
CeilMult(M, k) == CHOOSE x \in {j * k : j \in 0..M} : x >= M /\ x - k < M

\* ceil(M / k)
CeilDiv(M, k) == CHOOSE c \in 1..M : c * k >= M /\ (c - 1) * k < M

\* a is strictly better than b in the optimization direction
Better(a, b) == IF args.is_max THEN a > b ELSE a < b

\* the best element of a non-empty set of values
BestOf(S) == CHOOSE v \in S : \A w \in S : ~Better(w, v)

InLoop(p) == p \in {"sample", "eval", "check", "budget", "select", "update", "log"}

\* C1: with a budget M configured and replies that are None or k values, the
\* evaluation count never exceeds the smallest multiple of k that is >= M
Thm_C1 ==
    \A r \in Runs :
        (args.m # None /\ conform[r]) => info[r].m <= CeilMult(args.m, args.k)

\* a run that returned on the budget with the count strictly above the budget
Wit_C1 ==
    /\ pc[1] = "done" /\ conform[1] /\ args.m # None /\ y[1] # NoneY
    /\ info[1].m > args.m
    /\ info[1].m = CeilMult(args.m, args.k)

\* C2: the incumbent value never gets worse, and the incumbent (index and
\* value) changes only in the check of a batch whose best value is strictly
\* better than the incumbent, or when there was no incumbent
Thm_C2 ==
    [][\A r \in Runs :
         LET old == info[r]
             new == info'[r]
         IN  /\ (old.y_opt # None /\ pc[r] # "start") =>
                   (new.y_opt # None /\ ~Better(old.y_opt, new.y_opt))
             /\ (new.y_opt # old.y_opt \/ new.i_opt # old.i_opt) =>
                   /\ pc[r] = "check"
                   /\ Len(y[r]) > 0
                   /\ old.y_opt = None \/ Better(BestOf(Range(y[r])), old.y_opt)
                   /\ new.y_opt = BestOf(Range(y[r]))]_vars

\* a batch whose best value ties the incumbent, found at another multi-index,
\* has been checked and has left the incumbent alone
Wit_C2 ==
    /\ pc[1] = "budget" /\ calls[1] >= 2 /\ is_new[1] = "false"
    /\ BestOf(Range(y[1])) = info[1].y_opt
    /\ \E p \in 1..Len(y[1]) :
          /\ y[1][p] = info[1].y_opt
          /\ \A q \in 1..(p - 1) : y[1][q] # info[1].y_opt
          /\ Row(I[1], p) # info[1].i_opt

\* C3: a run whose first objective call replies None ends without a model
\* update and returns (None, None) normally
CX_C3 ==
    \A r \in Runs :
        (calls[r] = 1 /\ y[r] = NoneY) =>
            /\ pc[r] \in {"exit", "done"}
            /\ state[r] = 0
            /\ pc[r] = "done" => result[r] = <<NoIndex, None>>

\* C4: with a conforming objective the loop is left exactly on a None reply
\* or on a reached budget; with a budget M and an objective that always
\* replies k values the run returns, after exactly ceil(M / k) calls
Thm_C4 ==
    /\ [][\A r \in Runs :
            /\ (conform'[r] /\ InLoop(pc[r]) /\ ~InLoop(pc'[r])) =>
                  /\ pc'[r] = "exit"
                  /\ \/ pc[r] = "eval" /\ y'[r] = NoneY
                     \/ pc[r] = "budget" /\ args.m # None /\ info[r].m >= args.m
            /\ (pc[r] = "eval" /\ pc'[r] # "eval" /\ y'[r] = NoneY) => pc'[r] = "exit"
            /\ (pc[r] = "budget" /\ pc'[r] # "budget"
                  /\ args.m # None /\ info[r].m >= args.m) => pc'[r] = "exit"]_vars
    /\ [](\A r \in Runs :
            (f.kind = "values" /\ args.m # None /\ pc[r] \in {"exit", "done", "fault"})
               => calls[r] = CeilDiv(args.m, args.k))
    /\ ((f.kind = "values" /\ args.m # None) ~> (pc[1] = "done"))

\* a run on an always-replying objective that returned after two or more calls
Wit_C4 ==
    /\ f.kind = "values" /\ args.m # None /\ pc[1] = "done"
    /\ calls[1] >= 2 /\ calls[1] = CeilDiv(args.m, args.k)

\* C5: a run that returns after conforming replies returns the optimum over
\* all evaluated values and the multi-index of its earliest occurrence
Thm_C5 ==
    \A r \in Runs :
        (pc[r] = "done" /\ conform[r]) =>
            LET seen == {v \in Values : first_at[r][v] # NoIndex}
                opt == BestOf(seen)
            IN  /\ seen # {}
                /\ result[r] = <<first_at[r][opt], opt>>

\* a run that returned on the budget with an optimum found in the last batch,
\* at a position after the first, improving on an earlier incumbent
Wit_C5 ==
    /\ pc[1] = "done" /\ conform[1] /\ y[1] # NoneY /\ calls[1] >= 2
    /\ is_new[1] = "true" /\ Len(y[1]) >= 2
    /\ y[1][1] # result[1][2]

\* C6: a call with k_top > k is rejected before any sampling, objective call
\* or model update
CX_C6 ==
    \A r \in Runs :
        args.k_top > args.k => (I[r] = <<>> /\ calls[r] = 0 /\ state[r] = 0)

\* C7: after a reply whose size differs from k the run is in error, and no
\* count increment, incumbent update, selection or gradient step follows
CX_C7 ==
    \A r \in Runs :
        (calls[r] >= 1 /\ y[r] # NoneY /\ Len(y[r]) # args.k /\ pc[r] # "check")
            => pc[r] = "fault"

\* C8: for a batch of k values the selection is min(k_top, k) distinct
\* positions, every selected value at least as good as every unselected
\* one, and all k positions when k_top = k
Thm_C8 ==
    \A r \in Runs :
        (pc[r] \in {"update", "log"} /\ Len(y[r]) = args.k) =>
            LET sel == Range(ind[r])
            IN  /\ Len(ind[r]) = Min2(args.k_top, args.k)
                /\ Cardinality(sel) = Len(ind[r])
                /\ sel \subseteq 1..args.k
                /\ \A s \in sel : \A u \in (1..args.k) \ sel : ~Better(y[r][u], y[r][s])
                /\ args.k_top = args.k => sel = 1..args.k

\* a proper subset selected when maximizing, the better value at the end
Wit_C8 ==
    /\ pc[1] = "log" /\ args.is_max /\ args.k_top < args.k
    /\ Len(y[1]) = args.k /\ y[1][1] < y[1][args.k]
    /\ ind[1] = <<args.k>>

\* the key split off the stream in iteration t (t >= 1)
RECURSIVE Zeros(_)
Zeros(c) == IF c = 0 THEN <<>> ELSE <<0>> \o Zeros(c - 1)

IterKey(seed, is_rand, t) ==
    <<seed>> \o (IF is_rand THEN <<0>> ELSE <<>>) \o Zeros(t - 1) \o <<1>>

\* the iteration a run is in (1-based)
Iter(r) == IF pc[r] = "eval" THEN calls[r] + 1 ELSE calls[r]

SameRun(a, b) ==
    /\ info[a] = info[b] /\ rng[a] = rng[b] /\ key[a] = key[b] /\ P[a] = P[b]
    /\ state[a] = state[b] /\ I[a] = I[b] /\ y[a] = y[b] /\ is_new[a] = is_new[b]
    /\ ind[a] = ind[b] /\ result[a] = result[b]

Thm_C10 ==
    /\ [](\A r \in Runs :
            pc[r] \in {"exit", "done"} => state[r] = args.k_gd * (calls[r] - 1))
    /\ [][\A r \in Runs :
            (pc[r] # "start" /\ (state'[r] # state[r] \/ P'[r] # P[r])) =>
                /\ y[r] # NoneY
                /\ ~(args.m # None /\ info[r].m >= args.m)]_vars

\* a run with two gradient repetitions that returned on the budget after
\* three calls
Wit_C10 ==
    /\ pc[1] = "done" /\ args.k_gd = 2 /\ y[1] # NoneY /\ calls[1] = 3
    /\ state[1] = 4

====
